---- MODULE Spec2Model ----
(***************************************************************************)
(* lowpass-filter: the first-order IIR lowpass filter of src/src/lib.rs    *)
(* (LowpassFilter<T>::new / run / reset, lowpass_filter,                   *)
(* lowpass_filter_f64).                                                    *)
(*                                                                         *)
(* The filter is generated by impl_lowpass_filter! for f32 and f64.  Both  *)
(* are IEEE-754 binary formats and differ only in their precision and      *)
(* exponent range, so the model computes in one binary floating-point      *)
(* format whose precision and range are definitions (MantBits, FracBits,   *)
(* ShiftMax): round-to-nearest-even, gradual underflow, signed zeros,      *)
(* overflow to infinity, NaN.  A finite value is a sign and a magnitude    *)
(* counted in units of the smallest subnormal, 2^-FracBits.                *)
(***************************************************************************)
EXTENDS Integers, Sequences, FiniteSets

\* Precision p of the format (f32: 24, f64: 53), hidden bit included.
MantBits == 4
\* 1.0 is 2^FracBits units; one unit is the smallest subnormal (f32: 2^-149).
FracBits == 5
\* The largest finite magnitude is (2^MantBits - 1) * 2^ShiftMax units.
ShiftMax == 7

Pow2(e) == 2 ^ e
UnitsPerOne == Pow2(FracBits)
MaxFinite == (Pow2(MantBits) - 1) * Pow2(ShiftMax)

Abs(i) == IF i < 0 THEN -i ELSE i

(***************************************************************************)
(* Values of the floating-point type T.                                    *)
(***************************************************************************)
Nan == [k |-> "nan", neg |-> FALSE, n |-> 0]
Inf(neg) == [k |-> "inf", neg |-> neg, n |-> 0]
Fin(neg, n) == [k |-> "fin", neg |-> neg, n |-> n]

IsNan(a) == a.k = "nan"
IsInf(a) == a.k = "inf"
IsZero(a) == a.k = "fin" /\ a.n = 0

\* The signed magnitude of a finite value, in units.
Signed(a) == IF a.neg THEN -a.n ELSE a.n

\* The place of a non-NaN value in the order of the extended reals, in units.
Key(a) == IF a.k = "inf" THEN (IF a.neg THEN -(MaxFinite + 1) ELSE MaxFinite + 1)
          ELSE Signed(a)

\* The distance between neighbouring representable values around num/den units.
RECURSIVE Spacing(_, _, _)
Spacing(num, den, s) ==
  IF num < Pow2(MantBits) * s * den THEN s ELSE Spacing(num, den, 2 * s)

\* num/den rounded to an integer, ties to even.
RoundNearestEven(num, den) ==
  LET q == num \div den
      r == num % den
  IN  IF 2 * r < den THEN q
      ELSE IF 2 * r > den THEN q + 1
      ELSE IF q % 2 = 0 THEN q ELSE q + 1

\* The exact magnitude num/den (in units) rounded into the format.
Round(neg, num, den) ==
  LET s == Spacing(num, den, 1)
      m == s * RoundNearestEven(num, s * den)
  IN  IF m > MaxFinite THEN Inf(neg) ELSE Fin(neg, m)

\* The literal num/den of the source, as the compiler rounds it into T.
Lit(num, den) == Round(num < 0, Abs(num) * UnitsPerOne, den)

Neg(a) == IF IsNan(a) THEN Nan ELSE [a EXCEPT !.neg = ~a.neg]

Mul(a, b) ==
  IF IsNan(a) \/ IsNan(b) THEN Nan
  ELSE IF IsInf(a) \/ IsInf(b)
       THEN (IF IsZero(a) \/ IsZero(b) THEN Nan ELSE Inf(a.neg # b.neg))
       ELSE Round(a.neg # b.neg, a.n * b.n, UnitsPerOne)

Div(a, b) ==
  IF IsNan(a) \/ IsNan(b) THEN Nan
  ELSE IF IsInf(a) THEN (IF IsInf(b) THEN Nan ELSE Inf(a.neg # b.neg))
  ELSE IF IsInf(b) THEN Fin(a.neg # b.neg, 0)
  ELSE IF IsZero(b) THEN (IF IsZero(a) THEN Nan ELSE Inf(a.neg # b.neg))
  ELSE Round(a.neg # b.neg, a.n * UnitsPerOne, b.n)

Add(a, b) ==
  IF IsNan(a) \/ IsNan(b) THEN Nan
  ELSE IF IsInf(a) THEN (IF IsInf(b) /\ a.neg # b.neg THEN Nan ELSE a)
  ELSE IF IsInf(b) THEN b
  ELSE LET v == Signed(a) + Signed(b)
       IN  IF v = 0 THEN Fin(a.neg /\ b.neg, 0) ELSE Round(v < 0, Abs(v), 1)

Sub(a, b) == Add(a, Neg(b))

Le(a, b) == ~IsNan(a) /\ ~IsNan(b) /\ Key(a) <= Key(b)
Lt(a, b) == ~IsNan(a) /\ ~IsNan(b) /\ Key(a) < Key(b)
Gt(a, b) == Lt(b, a)

\* The literals of the source.
Zero == Lit(0, 1)
One == Lit(1, 1)
Two == Lit(2, 1)
MinusOne == Lit(-1, 1)
\* core::f32::consts::PI / core::f64::consts::PI: pi rounded into T.
Pi == Lit(355, 113)

\* T::clamp(self, min, max) with min <= max: a NaN stays a NaN.
Clamp(x, min, max) ==
  LET lo == IF Lt(x, min) THEN min ELSE x
  IN  IF Gt(lo, max) THEN max ELSE lo

\* RangeInclusive::contains of RANGE = -1.0..=1.0.
InRange(x) == Le(MinusOne, x) /\ Le(x, One)

(***************************************************************************)
(* LowpassFilter<T>                                                        *)
(***************************************************************************)
VARIABLES
  debug_assertions,  \* the build: debug_assert! is compiled in
  args,              \* the arguments of the latest call of new
  filter,            \* the LowpassFilter the caller holds: alpha, prev, next_is_first
  last,              \* the latest call: its operation, input, result
  well_formed,       \* every input of run so far was in RANGE
  samples,           \* lowpass_filter: the buffer behind sample_iter
  orig,              \* lowpass_filter: the buffer as it was passed in
  idx,               \* lowpass_filter: the position of the for loop
  pc,                \* idle, first, loop, running, into, returned or panicked
  n_run,             \* lowpass_filter: the calls of run made so far
  channels,          \* two filters of one caller: arguments, filter, calls, outputs
  conv               \* into_num: source type, target type, argument, result

vars == <<debug_assertions, args, filter, last, well_formed, samples, orig, idx, pc, n_run,
         channels, conv>>
batch_vars == <<samples, orig, idx, pc, n_run>>

\* Argument values of new: sample rates and cutoff frequencies.
Freqs ==
  { Lit(0, 1), Lit(1, 32), Lit(1, 2), Lit(1, 1), Lit(2, 1), Lit(4, 1), Lit(8, 1),
    Lit(15, 1), Lit(-1, 1), Inf(FALSE), Nan }

\* Argument values of run: in RANGE, outside of it, and NaN.
Samples ==
  { Lit(-1, 1), Lit(-1, 2), Lit(0, 1), Lit(3, 8), Lit(1, 1), Lit(3, 2), Lit(-4, 1), Nan }

\* assert!(cutoff_frequency_hz * 2.0 <= sample_rate_hz)
NyquistOkNoFactor(sample_rate_hz, cutoff_frequency_hz) ==
  Le(cutoff_frequency_hz, sample_rate_hz)
NyquistOkStrict(sample_rate_hz, cutoff_frequency_hz) ==
  Lt(Mul(cutoff_frequency_hz, Two), sample_rate_hz)
NyquistOk(sample_rate_hz, cutoff_frequency_hz) ==
  Le(Mul(cutoff_frequency_hz, Two), sample_rate_hz)

\* The filter new returns when its assertion holds.
new(sample_rate_hz, cutoff_frequency_hz) ==
  LET rc == Div(One, Mul(Mul(cutoff_frequency_hz, Two), Pi))
      dt == Div(One, sample_rate_hz)
      alpha == Div(dt, Add(rc, dt))
  IN  [alpha |-> alpha, prev |-> Zero, next_is_first |-> TRUE]

\* debug_assert!(RANGE.contains(&input)): whether run panics on input.
run_panics_unchecked(debug, input) == FALSE
run_panics(debug, input) == debug /\ ~InRange(input)

\* run past its debug assertion: the filter it leaves, the value before the
\* clamp and the value returned.
run_seed_scaled(self, input) ==
  LET first == self.next_is_first
      prev == IF first THEN Mul(input, self.alpha)
              ELSE Add(self.prev, Mul(self.alpha, Sub(input, self.prev)))
  IN  [filter |-> [self EXCEPT !.next_is_first = FALSE, !.prev = prev],
       value |-> prev,
       ret |-> Clamp(prev, MinusOne, One)]
run_keeps_flag(self, input) ==
  LET first == self.next_is_first
      prev == IF first THEN input
              ELSE Add(self.prev, Mul(self.alpha, Sub(input, self.prev)))
      value == IF first THEN Mul(input, self.alpha) ELSE prev
  IN  [filter |-> [self EXCEPT !.prev = prev],
       value |-> value,
       ret |-> Clamp(value, MinusOne, One)]
run_sum_feedback(self, input) ==
  LET first == self.next_is_first
      prev == IF first THEN input
              ELSE Add(self.prev, Mul(self.alpha, Add(input, self.prev)))
      value == IF first THEN Mul(input, self.alpha) ELSE prev
  IN  [filter |-> [self EXCEPT !.next_is_first = FALSE, !.prev = prev],
       value |-> value,
       ret |-> Clamp(value, MinusOne, One)]
run(self, input) ==
  LET first == self.next_is_first
      prev == IF first THEN input
              ELSE Add(self.prev, Mul(self.alpha, Sub(input, self.prev)))
      value == IF first THEN Mul(input, self.alpha) ELSE prev
  IN  [filter |-> [self EXCEPT !.next_is_first = FALSE, !.prev = prev],
       value |-> value,
       ret |-> Clamp(value, MinusOne, One)]

\* reset: the filter it leaves.
reset_zeroes_alpha(self) ==
  [self EXCEPT !.alpha = Zero, !.prev = Zero, !.next_is_first = TRUE]
reset_keeps_prev(self) == [self EXCEPT !.next_is_first = TRUE]
reset_keeps_flag(self) == [self EXCEPT !.prev = Zero]
reset(self) == [self EXCEPT !.prev = Zero, !.next_is_first = TRUE]

Call(op, input, first, ret, panicked) ==
  [op |-> op, input |-> input, first |-> first, ret |-> ret, panicked |-> panicked]

\* The caller's variable before new has returned a filter into it.
Unconstructed == [alpha |-> Zero, prev |-> Zero, next_is_first |-> FALSE]

\* A filter has been constructed and no call has panicked: a panic ends the
\* program (the crate has no catch_unwind).
Live == last.op # "none" /\ ~last.panicked

Init ==
  /\ debug_assertions \in BOOLEAN
  /\ args = [sample_rate_hz |-> Zero, cutoff_frequency_hz |-> Zero]
  /\ filter = Unconstructed
  /\ last = Call("none", Zero, FALSE, Zero, FALSE)
  /\ well_formed = TRUE
  /\ samples = <<>>
  /\ orig = <<>>
  /\ idx = 0
  /\ pc = "idle"
  /\ n_run = 0
  /\ channels = [ch \in {"left", "right"} |->
                   [args |-> [sample_rate_hz |-> Zero, cutoff_frequency_hz |-> Zero],
                    filter |-> Unconstructed, calls |-> <<>>, outs |-> <<>>]]
  /\ conv = [source |-> "float", target |-> "float", x |-> Zero, ret |-> Zero]

\* LowpassFilter::new(sample_rate_hz, cutoff_frequency_hz): returns the
\* filter, or the assertion panics.
New ==
  /\ last.op = "none"
  /\ pc = "idle"
  /\ \E sr \in Freqs, c \in Freqs :
       /\ args' = [sample_rate_hz |-> sr, cutoff_frequency_hz |-> c]
       /\ IF NyquistOk(sr, c)
          THEN /\ filter' = new(sr, c)
               /\ last' = Call("new", Zero, FALSE, Zero, FALSE)
          ELSE /\ filter' = filter
               /\ last' = Call("new", Zero, FALSE, Zero, TRUE)
  /\ UNCHANGED <<conv, channels, debug_assertions, well_formed, batch_vars>>

\* filter.run(input): returns the filtered sample, or the debug assertion
\* panics.
RunAssertLate ==
  /\ Live
  /\ pc = "idle"
  /\ \E input \in Samples :
       /\ well_formed' = (well_formed /\ InRange(input))
       /\ filter' = run(filter, input).filter
       /\ IF run_panics(debug_assertions, input)
          THEN last' = Call("run", input, filter.next_is_first, Zero, TRUE)
          ELSE last' = Call("run", input, filter.next_is_first,
                            run(filter, input).ret, FALSE)
  /\ UNCHANGED <<conv, channels, debug_assertions, args, batch_vars>>
Run ==
  /\ Live
  /\ pc = "idle"
  /\ \E input \in Samples :
       /\ well_formed' = (well_formed /\ InRange(input))
       /\ IF run_panics(debug_assertions, input)
          THEN /\ filter' = filter
               /\ last' = Call("run", input, filter.next_is_first, Zero, TRUE)
          ELSE /\ filter' = run(filter, input).filter
               /\ last' = Call("run", input, filter.next_is_first,
                               run(filter, input).ret, FALSE)
  /\ UNCHANGED <<conv, channels, debug_assertions, args, batch_vars>>

\* filter.reset()
Reset ==
  /\ Live
  /\ pc = "idle"
  /\ filter' = reset(filter)
  /\ last' = Call("reset", Zero, FALSE, Zero, FALSE)
  /\ UNCHANGED <<conv, channels, debug_assertions, args, well_formed, batch_vars>>

Next == New \/ Run \/ Reset

Spec == Init /\ [][Next]_vars

(***************************************************************************)
(* lowpass_filter / lowpass_filter_f64                                     *)
(***************************************************************************)
\* The longest buffer passed to lowpass_filter.
MaxLen == 3

\* Argument values of lowpass_filter: frequencies and buffer elements.
BatchFreqs == { Lit(0, 1), Lit(1, 4), Lit(1, 1), Lit(2, 1), Lit(8, 1), Lit(-1, 1), Nan }
BatchSamples == { Lit(-1, 1), Lit(-1, 2), Lit(3, 8), Lit(1, 1), Lit(3, 2) }

\* mono_audio_data of the crate's example, as far as T holds it: 0.0, 1.0 and
\* -5.0 (1551.0 is beyond the largest finite value of T, and the buffer ends
\* before it).
ScenarioInput == <<Lit(0, 1), Lit(1, 1), Lit(-5, 1)>>

RECURSIVE SeqsUpTo(_, _)
SeqsUpTo(S, n) ==
  IF n = 0 THEN {<<>>}
  ELSE LET shorter == SeqsUpTo(S, n - 1)
       IN  shorter \cup {Append(q, x) : q \in {t \in shorter : Len(t) = n - 1}, x \in S}

\* The buffers passed to lowpass_filter.
Buffers == SeqsUpTo(BatchSamples, MaxLen) \cup {ScenarioInput}

\* lowpass_filter(sample_iter, sample_rate_hz, cutoff_frequency_hz) up to its
\* loop: let mut filter = LowpassFilter::new(..), which may panic.
BatchCallFirstUnguarded ==
  /\ pc = "idle"
  /\ \E buffer \in Buffers, sr \in BatchFreqs, c \in BatchFreqs :
       /\ samples' = buffer
       /\ orig' = buffer
       /\ args' = [sample_rate_hz |-> sr, cutoff_frequency_hz |-> c]
       /\ IF NyquistOk(sr, c) /\ buffer # <<>>
          THEN filter' = new(sr, c) /\ pc' = "loop"
          ELSE filter' = filter /\ pc' = "panicked"
  /\ UNCHANGED <<conv, channels, debug_assertions, last, well_formed, idx, n_run>>
BatchCallCheckLate ==
  /\ pc = "idle"
  /\ \E buffer \in Buffers, sr \in BatchFreqs, c \in BatchFreqs :
       /\ orig' = buffer
       /\ args' = [sample_rate_hz |-> sr, cutoff_frequency_hz |-> c]
       /\ IF NyquistOk(sr, c)
          THEN samples' = buffer /\ filter' = new(sr, c) /\ pc' = "loop"
          ELSE /\ samples' = [j \in 1..Len(buffer) |-> Zero]
               /\ filter' = filter
               /\ pc' = "panicked"
  /\ UNCHANGED <<conv, channels, debug_assertions, last, well_formed, idx, n_run>>
BatchCall ==
  /\ pc = "idle"
  /\ \E buffer \in Buffers, sr \in BatchFreqs, c \in BatchFreqs :
       /\ samples' = buffer
       /\ orig' = buffer
       /\ args' = [sample_rate_hz |-> sr, cutoff_frequency_hz |-> c]
       /\ IF NyquistOk(sr, c)
          THEN filter' = new(sr, c) /\ pc' = "loop"
          ELSE filter' = filter /\ pc' = "panicked"
  /\ UNCHANGED <<conv, channels, debug_assertions, last, well_formed, idx, n_run>>

\* One iteration of the for loop: new_sample = filter.run(*sample);
\* *sample = new_sample.  idx elements have been visited.
BatchStepNewEach ==
  /\ pc = "loop"
  /\ idx < Len(samples)
  /\ LET input == samples[idx + 1]
         fresh == new(args.sample_rate_hz, args.cutoff_frequency_hz)
     IN  IF run_panics(debug_assertions, input)
         THEN /\ pc' = "panicked"
              /\ UNCHANGED <<filter, samples, idx, n_run>>
         ELSE /\ filter' = run(fresh, input).filter
              /\ samples' = [samples EXCEPT ![idx + 1] = run(fresh, input).ret]
              /\ idx' = idx + 1
              /\ n_run' = n_run + 1
              /\ pc' = pc
  /\ UNCHANGED <<conv, channels, debug_assertions, args, last, well_formed, orig>>
BatchStep ==
  /\ pc = "loop"
  /\ idx < Len(samples)
  /\ LET input == samples[idx + 1]
     IN  IF run_panics(debug_assertions, input)
         THEN /\ pc' = "panicked"
              /\ UNCHANGED <<filter, samples, idx, n_run>>
         ELSE /\ filter' = run(filter, input).filter
              /\ samples' = [samples EXCEPT ![idx + 1] = run(filter, input).ret]
              /\ idx' = idx + 1
              /\ n_run' = n_run + 1
              /\ pc' = pc
  /\ UNCHANGED <<conv, channels, debug_assertions, args, last, well_formed, orig>>

\* The iterator is exhausted: lowpass_filter returns.
BatchReturnEarly ==
  /\ pc = "loop"
  /\ idx + 1 >= Len(samples)
  /\ pc' = "returned"
  /\ UNCHANGED <<conv, channels, debug_assertions, args, filter, last, well_formed, samples, orig, idx, n_run>>
BatchReturn ==
  /\ pc = "loop"
  /\ idx = Len(samples)
  /\ pc' = "returned"
  /\ UNCHANGED <<conv, channels, debug_assertions, args, filter, last, well_formed, samples, orig, idx, n_run>>

NextBatch == BatchCall \/ BatchStep \/ BatchReturn

SpecBatch == Init /\ [][NextBatch]_vars

(***************************************************************************)
(* The simple module: apply_lpf_i16_sp / apply_lpf_i32_sp (simple/sp.rs),  *)
(* apply_lpf_i16_dp / apply_lpf_i32_dp (simple/dp.rs) and                  *)
(* FirstOrderLowPassFilter::filter (simple/mod.rs, lpw_float_impl!).  The  *)
(* sp and dp functions are the same code over f32 and f64 and are computed *)
(* in the one format T; i16 and i32 are two's-complement integers of       *)
(* ShortBits and LongBits bits, u16 an unsigned integer of RateBits bits.  *)
(* As in apply_lpf_i32_sp, where i32 has more bits than the 24 of f32, the *)
(* long integer has more bits than the precision of T, and every integer   *)
(* is within the finite range of T; the short integer and the rates are    *)
(* held exactly, as i16 and u16 are by f32 and f64.                        *)
(***************************************************************************)
\* Width of the stand-in for i16.
ShortBits == 3
\* Width of the stand-in for i32.
LongBits == 6
\* Width of the stand-in for u16.
RateBits == 4

Bits(data_type) == IF data_type = "i16" THEN ShortBits ELSE LongBits
IntMin(bits) == -Pow2(bits - 1)
IntMax(bits) == Pow2(bits - 1) - 1
RateMax == Pow2(RateBits) - 1

\* i as T: an integer converted to the nearest value of T.
FromInt(i) == Round(i < 0, Abs(i) * UnitsPerOne, 1)

\* x as i16 / x as i32: truncation toward zero, saturating, NaN to 0.
ToInt(x, bits) ==
  IF IsNan(x) THEN 0
  ELSE IF IsInf(x) THEN (IF x.neg THEN IntMin(bits) ELSE IntMax(bits))
  ELSE LET t == x.n \div UnitsPerOne
           v == IF x.neg THEN -t ELSE t
       IN  IF v < IntMin(bits) THEN IntMin(bits)
           ELSE IF v > IntMax(bits) THEN IntMax(bits) ELSE v

\* An element or frequency argument as the float the function computes with,
\* and a computed float as the element stored back.
Load(data_type, v) == IF data_type = "float" THEN v ELSE FromInt(v)
Store(data_type, x) == IF data_type = "float" THEN x ELSE ToInt(x, Bits(data_type))

\* rc, dt and alpha of the simple functions.
simple_alpha(data_type, rate, cutoff) ==
  LET rc == Div(One, Mul(Mul(Load(data_type, cutoff), Two), Pi))
      dt == Div(One, Load(data_type, rate))
  IN  Div(dt, Add(rc, dt))

\* data[0] = (alpha * data[0] as T) as i16
simple_first(data_type, alpha, x0) ==
  Store(data_type, Mul(alpha, Load(data_type, x0)))

\* data[i] = (data[i - 1] as T + alpha * (data[i] as T - data[i - 1] as T)) as i16
simple_next(data_type, alpha, before, x) ==
  Store(data_type,
        Add(Load(data_type, before),
            Mul(alpha, Sub(Load(data_type, x), Load(data_type, before)))))

\* Argument values of the simple functions.
DataTypes == {"i16", "i32", "float"}
SimpleRates(data_type) ==
  IF data_type = "float" THEN {Lit(0, 1), Lit(1, 1), Lit(4, 1), Lit(15, 1)}
  ELSE {0, 1, 4, RateMax}
SimpleSamples(data_type) ==
  IF data_type = "float" THEN {Lit(-4, 1), Lit(-1, 2), Lit(0, 1), Lit(3, 1)}
  ELSE {IntMin(Bits(data_type)), -1, 2, IntMax(Bits(data_type)) - 2,
        IntMax(Bits(data_type))}

\* The alpha of the call in progress.
alpha_of_call == simple_alpha(args.data_type, args.sample_rate_hz, args.cutoff_frequency_hz)

\* A simple function is called: rc, dt and alpha are computed.
SimpleCall ==
  /\ pc = "idle"
  /\ \E data_type \in DataTypes :
       \E data \in SeqsUpTo(SimpleSamples(data_type), MaxLen),
          rate \in SimpleRates(data_type), cutoff \in SimpleRates(data_type) :
         /\ samples' = data
         /\ orig' = data
         /\ args' = [data_type |-> data_type, sample_rate_hz |-> rate,
                     cutoff_frequency_hz |-> cutoff]
  /\ pc' = "first"
  /\ UNCHANGED <<conv, channels, debug_assertions, filter, last, well_formed, idx, n_run>>

\* data[0] = (alpha * data[0] as T) as i16: indexing an empty slice panics.
SimpleFirst ==
  /\ pc = "first"
  /\ IF Len(samples) = 0
     THEN pc' = "panicked" /\ UNCHANGED <<samples, idx>>
     ELSE /\ samples' = [samples EXCEPT ![1] = simple_first(args.data_type, alpha_of_call, samples[1])]
          /\ idx' = 1
          /\ pc' = "loop"
  /\ UNCHANGED <<conv, channels, debug_assertions, args, filter, last, well_formed, orig, n_run>>

\* One iteration of for i in 1..data.len(); idx is i.
SimpleStep ==
  /\ pc = "loop"
  /\ idx < Len(samples)
  /\ samples' = [samples EXCEPT ![idx + 1] =
                   simple_next(args.data_type, alpha_of_call, samples[idx], samples[idx + 1])]
  /\ idx' = idx + 1
  /\ UNCHANGED <<conv, channels, debug_assertions, args, filter, last, well_formed, orig, pc, n_run>>

\* The range 1..data.len() is exhausted: the function returns.
SimpleReturn ==
  /\ pc = "loop"
  /\ idx = Len(samples)
  /\ pc' = "returned"
  /\ UNCHANGED <<conv, channels, debug_assertions, args, filter, last, well_formed, samples, orig, idx, n_run>>

NextSimple == SimpleCall \/ SimpleFirst \/ SimpleStep \/ SimpleReturn

SpecSimple == Init /\ [][NextSimple]_vars

(***************************************************************************)
(* Two LowpassFilter values of one caller, one per audio channel.  Every   *)
(* call takes &mut self of one of them; the struct has three plain fields  *)
(* and the crate has no static and no shared reference.                    *)
(***************************************************************************)
\* The most calls of run and reset made on the two filters together.
MaxCalls == 4

Channels == {"left", "right"}

\* Argument values of new and run for the two filters.
ChannelArgs ==
  { [sample_rate_hz |-> Lit(8, 1), cutoff_frequency_hz |-> Lit(1, 1)],
    [sample_rate_hz |-> Lit(2, 1), cutoff_frequency_hz |-> Lit(1, 1)],
    [sample_rate_hz |-> Lit(1, 1), cutoff_frequency_hz |-> Lit(1, 1)] }
ChannelSamples == { Lit(3, 8), Lit(-1, 1), Lit(3, 2) }

\* The filters after chs[ch].filter.run(input) has returned: run reads and
\* writes the fields of its own self only.
run_on_shared_prev(chs, ch, input) ==
  [c \in Channels |->
     IF c = ch
     THEN [chs[c] EXCEPT !.filter = run(chs[ch].filter, input).filter,
                         !.calls = Append(@, [op |-> "run", input |-> input]),
                         !.outs = Append(@, run(chs[ch].filter, input).ret)]
     ELSE [chs[c] EXCEPT !.filter.prev = run(chs[ch].filter, input).filter.prev]]
run_on(chs, ch, input) ==
  [chs EXCEPT ![ch] =
     [@ EXCEPT !.filter = run(chs[ch].filter, input).filter,
               !.calls = Append(@, [op |-> "run", input |-> input]),
               !.outs = Append(@, run(chs[ch].filter, input).ret)]]

\* The filters after chs[ch].filter.reset().
reset_on(chs, ch) ==
  [chs EXCEPT ![ch] =
     [@ EXCEPT !.filter = reset(chs[ch].filter),
               !.calls = Append(@, [op |-> "reset", input |-> Zero])]]

\* let mut left = LowpassFilter::new(..); let mut right = LowpassFilter::new(..)
ChannelsNew ==
  /\ pc = "idle"
  /\ \E a \in [Channels -> ChannelArgs] :
       IF \A ch \in Channels : NyquistOk(a[ch].sample_rate_hz, a[ch].cutoff_frequency_hz)
       THEN /\ channels' = [ch \in Channels |->
                              [args |-> a[ch],
                               filter |-> new(a[ch].sample_rate_hz, a[ch].cutoff_frequency_hz),
                               calls |-> <<>>, outs |-> <<>>]]
            /\ pc' = "running"
       ELSE /\ channels' = channels
            /\ pc' = "panicked"
  /\ UNCHANGED <<conv, debug_assertions, args, filter, last, well_formed, samples, orig, idx, n_run>>

\* left.run(input) or right.run(input)
ChannelRun ==
  /\ pc = "running"
  /\ n_run < MaxCalls
  /\ \E ch \in Channels, input \in ChannelSamples :
       IF run_panics(debug_assertions, input)
       THEN /\ pc' = "panicked"
            /\ UNCHANGED <<channels, n_run>>
       ELSE /\ channels' = run_on(channels, ch, input)
            /\ n_run' = n_run + 1
            /\ pc' = pc
  /\ UNCHANGED <<conv, debug_assertions, args, filter, last, well_formed, samples, orig, idx>>

\* left.reset() or right.reset()
ChannelReset ==
  /\ pc = "running"
  /\ n_run < MaxCalls
  /\ \E ch \in Channels : channels' = reset_on(channels, ch)
  /\ n_run' = n_run + 1
  /\ UNCHANGED <<conv, debug_assertions, args, filter, last, well_formed, samples, orig, idx, pc>>

NextChannels == ChannelsNew \/ ChannelRun \/ ChannelReset

SpecChannels == Init /\ [][NextChannels]_vars

(***************************************************************************)
(* The numeric adapter of num_traits.rs: NumFromAs::from_num is the `as`   *)
(* cast of the language and NumInto::into_num calls it.  The primitive     *)
(* types are stood for by a short and a long signed integer, an unsigned   *)
(* integer and the float type T.                                           *)
(***************************************************************************)
NumTypes == {"i16", "i32", "u16", "float"}

TypeWidth(type) == IF type = "u16" THEN RateBits ELSE Bits(type)
TypeMin(type) == IF type = "u16" THEN 0 ELSE IntMin(Bits(type))
TypeMax(type) == IF type = "u16" THEN RateMax ELSE IntMax(Bits(type))

\* The integer part of a finite float: the fraction is dropped.
Trunc(x) == IF x.neg THEN -(x.n \div UnitsPerOne) ELSE x.n \div UnitsPerOne

\* i as $dest_type between integers: the low bits of the two's complement.
cast_int_to_int(target, i) ==
  ((i - TypeMin(target)) % Pow2(TypeWidth(target))) + TypeMin(target)

\* A float-to-integer cast that wraps the integer part instead of saturating
\* (not what `as` does; kept for comparison with cast_float_to_int).
cast_float_to_int_wrapping(target, x) ==
  IF IsNan(x) \/ IsInf(x) THEN 0 ELSE cast_int_to_int(target, Trunc(x))

\* x as $dest_type from a float to an integer: the integer part, saturating
\* at the bounds of the target, NaN to 0.
cast_float_to_int(target, x) ==
  IF IsNan(x) THEN 0
  ELSE IF IsInf(x) THEN (IF x.neg THEN TypeMin(target) ELSE TypeMax(target))
  ELSE IF Trunc(x) < TypeMin(target) THEN TypeMin(target)
  ELSE IF Trunc(x) > TypeMax(target) THEN TypeMax(target)
  ELSE Trunc(x)

\* t as $dest_type
as_cast(source, target, t) ==
  IF source = "float"
  THEN (IF target = "float" THEN t ELSE cast_float_to_int(target, t))
  ELSE (IF target = "float" THEN FromInt(t) ELSE cast_int_to_int(target, t))

\* NumFromAs<$source_type> for $dest_type
from_num(source, target, t) == as_cast(source, target, t)

\* NumInto<TargetNum> for SelfNum
into_num(source, target, self) == from_num(source, target, self)

\* Argument values of into_num.
NumFloats ==
  { Nan, Inf(FALSE), Inf(TRUE), Lit(0, 1), Lit(3, 4), Lit(-7, 8), Lit(5, 2), Lit(-9, 2),
    Lit(7, 2), Lit(11, 2), Lit(-11, 2), Lit(15, 1), Lit(-40, 1), Lit(60, 1) }
NumValues(type) == IF type = "float" THEN NumFloats ELSE TypeMin(type)..TypeMax(type)

\* x.into_num() is called for a source type and a target type.
IntoNum ==
  /\ pc = "idle"
  /\ \E source \in NumTypes, target \in NumTypes :
       \E x \in NumValues(source) :
         conv' = [source |-> source, target |-> target, x |-> x, ret |-> Zero]
  /\ pc' = "into"
  /\ UNCHANGED <<debug_assertions, args, filter, last, well_formed, samples, orig, idx,
                 n_run, channels>>

\* TargetNum::from_num(self) returns into into_num, which returns it.
FromNum ==
  /\ pc = "into"
  /\ conv' = [conv EXCEPT !.ret = into_num(conv.source, conv.target, conv.x)]
  /\ pc' = "returned"
  /\ UNCHANGED <<debug_assertions, args, filter, last, well_formed, samples, orig, idx,
                 n_run, channels>>

NextNum == IntoNum \/ FromNum

SpecNum == Init /\ [][NextNum]_vars

(***************************************************************************)
(* Properties                                                              *)
(***************************************************************************)
\* The arguments of the latest call of new.
sample_rate_hz == args.sample_rate_hz
cutoff_frequency_hz == args.cutoff_frequency_hz

\* cutoff * 2 <= rate and cutoff * 2 > rate over the extended reals, computed
\* exactly (no rounding, no overflow): an infinity doubled is itself.
Beyond == 2 * MaxFinite + 1
ExactTwice(c) == IF IsInf(c) THEN (IF c.neg THEN -Beyond ELSE Beyond) ELSE 2 * Signed(c)
ExactOnce(r) == IF IsInf(r) THEN (IF r.neg THEN -Beyond ELSE Beyond) ELSE Signed(r)
ExactTwiceLe(c, r) == ~IsNan(c) /\ ~IsNan(r) /\ ExactTwice(c) <= ExactOnce(r)
ExactTwiceGt(c, r) == ~IsNan(c) /\ ~IsNan(r) /\ ExactTwice(c) > ExactOnce(r)

\* C1: every value run returns is in [-1, 1], for every constructed filter
\* and every sequence of inputs in [-1, 1].
C1_Boundedness ==
  (last.op = "run" /\ ~last.panicked /\ well_formed) => InRange(last.ret)

\* C2: new panics if cutoff_frequency_hz * 2 > sample_rate_hz and returns a
\* filter whenever cutoff_frequency_hz * 2 <= sample_rate_hz, equality
\* included.
C2_NyquistCheck ==
  last.op = "new" =>
    /\ ExactTwiceGt(cutoff_frequency_hz, sample_rate_hz) => last.panicked
    /\ ExactTwiceLe(cutoff_frequency_hz, sample_rate_hz) =>
         (~last.panicked /\ filter.next_is_first)

\* C2 witness: new has returned a filter for a positive cutoff exactly at half
\* the sample rate.
C2_Witness ==
  /\ last.op = "new"
  /\ ~last.panicked
  /\ filter.next_is_first
  /\ cutoff_frequency_hz.k = "fin" /\ cutoff_frequency_hz.n > 0
  /\ sample_rate_hz.k = "fin"
  /\ 2 * Signed(cutoff_frequency_hz) = Signed(sample_rate_hz)

\* C3 as stated: new never returns a filter when cutoff_frequency_hz is
\* greater than or equal to sample_rate_hz / 2.
C3_FatalAtOrAboveNyquist ==
  (last.op = "new" /\ Le(Div(sample_rate_hz, Two), cutoff_frequency_hz))
    => last.panicked

\* C3 as amended: new never returns a filter when cutoff_frequency_hz is
\* strictly greater than sample_rate_hz / 2; at equality it returns one.
C3_FatalAboveNyquist ==
  /\ (last.op = "new" /\ Gt(cutoff_frequency_hz, Div(sample_rate_hz, Two)))
       => last.panicked
  /\ (last.op = "new" /\ cutoff_frequency_hz.k = "fin" /\ sample_rate_hz.k = "fin"
        /\ 2 * Signed(cutoff_frequency_hz) = Signed(sample_rate_hz))
       => ~last.panicked

\* C3 witness: new has panicked for a cutoff above half the sample rate.
C3_Witness ==
  /\ last.op = "new"
  /\ last.panicked
  /\ Gt(cutoff_frequency_hz, Div(sample_rate_hz, Two))
  /\ Gt(sample_rate_hz, Zero)

\* C4: the alpha of every filter new returns is in (0, 1].
C4_AlphaRange ==
  Live => (Lt(Zero, filter.alpha) /\ Le(filter.alpha, One))

\* A step is a call of run that returned (a stuttering step is none).
RunReturns == last'.op = "run" /\ ~last'.panicked /\ vars' # vars

\* The first-sample rule with the returned values given by Ret(value).
FirstSampleRule(Ret(_)) ==
  /\ (RunReturns /\ filter.next_is_first) =>
       /\ last'.ret = Ret(Mul(filter.alpha, last'.input))
       /\ filter'.prev = last'.input
       /\ ~filter'.next_is_first
  /\ (RunReturns /\ last.op = "run" /\ ~last.panicked /\ last.first) =>
       last'.ret = Ret(Add(last.input,
                           Mul(filter.alpha, Sub(last'.input, last.input))))

Unclamped(value) == value
Clamped(value) == Clamp(value, MinusOne, One)

\* C5 as stated: the first run(x0) after construction or reset returns
\* alpha * x0, stores x0 as prev and clears the first-sample flag; the second
\* run(x1) returns x0 + alpha * (x1 - x0).
C5_FirstSampleRule == [][FirstSampleRule(Unclamped)]_vars

\* C5 as amended: the first run(x0) after construction or reset returns
\* alpha * x0 clamped to [-1, 1], stores x0 as prev and clears the
\* first-sample flag; the second run(x1) returns x0 + alpha * (x1 - x0)
\* clamped to [-1, 1].
C5_FirstSampleRuleClamped == [][FirstSampleRule(Clamped)]_vars

\* C5 witness: the second run since construction or reset has returned, after
\* a first run of a nonzero input, and alpha is in (0, 1).
C5_Witness ==
  /\ last.op = "run" /\ ~last.panicked /\ ~last.first
  /\ Lt(Zero, filter.alpha) /\ Lt(filter.alpha, One)
  /\ ~IsZero(filter.prev)
  /\ filter.prev # last.input

\* The recurrence of a run that is not the first, for an input in [-1, 1],
\* with the returned value given by Ret(prev).
Recurrence(Ret(_)) ==
  (RunReturns /\ Live /\ ~filter.next_is_first /\ InRange(last'.input)) =>
    /\ filter'.prev = Add(filter.prev, Mul(filter.alpha, Sub(last'.input, filter.prev)))
    /\ last'.ret = Ret(filter'.prev)

\* C6 as stated: a run that is not the first, with an input in [-1, 1], sets
\* prev to prev + alpha * (input - prev) and returns exactly that prev.
C6_Recurrence == [][Recurrence(Unclamped)]_vars

\* C6 as amended: a run that is not the first, with an input in [-1, 1], sets
\* prev to prev + alpha * (input - prev) and returns that prev clamped to
\* [-1, 1]; the stored prev is not clamped.
C6_RecurrenceClamped == [][Recurrence(Clamped)]_vars

\* C6 witness: a run that was not the first has returned a value that moved
\* prev strictly between its old value and the input.
C6_Witness ==
  /\ last.op = "run" /\ ~last.panicked /\ ~last.first
  /\ InRange(last.input)
  /\ Lt(Zero, filter.alpha) /\ Lt(filter.alpha, One)
  /\ Lt(Zero, filter.prev) /\ Lt(filter.prev, last.input)
  /\ last.ret = filter.prev

\* C7: reset sets prev = 0 and the first-sample flag, leaves alpha unchanged,
\* and a second reset changes nothing.
C7_Reset ==
  [][(last'.op = "reset" /\ vars' # vars) =>
       /\ filter'.prev = Zero
       /\ filter'.next_is_first
       /\ filter'.alpha = filter.alpha
       /\ reset(filter') = filter'
       /\ (last.op = "reset" => filter' = filter)]_vars

\* C7 witness: reset has been called on a filter with a nonzero alpha.
C7_Witness == last.op = "reset" /\ Live /\ Lt(Zero, filter.alpha) /\ filter.next_is_first

\* The longest input sequence fed to a filter after reset.
MaxSeqLen == 3

\* What a caller sees of run: a panic, or the value returned.
Outcome(panicked, ret) == [panicked |-> panicked, ret |-> ret]

\* The outcomes of feeding the inputs S, in order, to the filter self; a panic
\* ends the sequence.
RECURSIVE Outputs(_, _, _)
Outputs(self, S, debug) ==
  IF S = <<>> THEN <<>>
  ELSE IF run_panics(debug, Head(S)) THEN <<Outcome(TRUE, Zero)>>
  ELSE <<Outcome(FALSE, run(self, Head(S)).ret)>>
         \o Outputs(run(self, Head(S)).filter, Tail(S), debug)

\* C8: after any calls of run followed by reset, feeding an input sequence S
\* gives the same outputs as feeding S to a newly constructed filter with the
\* same sample rate and cutoff.
C8_ResetIsFresh ==
  (last.op = "reset" /\ Live) =>
    \A S \in SeqsUpTo(Samples, MaxSeqLen) :
      Outputs(filter, S, debug_assertions)
        = Outputs(new(sample_rate_hz, cutoff_frequency_hz), S, debug_assertions)

\* C8 witness: reset has been called on a filter whose alpha is in (0, 1), so
\* that its outputs depend on the inputs and on the first-sample flag.
C8_Witness ==
  /\ last.op = "reset" /\ Live
  /\ Lt(Zero, filter.alpha) /\ Lt(filter.alpha, One)
  /\ Outputs(filter, <<One, One>>, debug_assertions)
       # Outputs([filter EXCEPT !.next_is_first = FALSE], <<One, One>>, debug_assertions)

\* C9: when lowpass_filter returns, the buffer has its length unchanged and
\* its element i is the i-th value run returns on a newly constructed filter
\* fed the original elements in index order.
C9_BatchEquivalence ==
  pc = "returned" =>
    LET expected == Outputs(new(sample_rate_hz, cutoff_frequency_hz), orig,
                            debug_assertions)
    IN  /\ Len(samples) = Len(orig)
        /\ Len(expected) = Len(orig)
        /\ \A i \in 1..Len(orig) : expected[i] = Outcome(FALSE, samples[i])

\* C9 witness: lowpass_filter has returned on a buffer of two or more
\* elements that it changed, with alpha in (0, 1).
C9_Witness ==
  /\ pc = "returned"
  /\ Len(orig) >= 2
  /\ samples # orig
  /\ samples[1] # samples[2]
  /\ Lt(Zero, filter.alpha) /\ Lt(filter.alpha, One)

\* C10: lowpass_filter called with an empty buffer and cutoff * 2 <= rate
\* makes no call of run, does not panic and returns.
C10_EmptyBuffer ==
  (pc # "idle" /\ orig = <<>>
     /\ ExactTwiceLe(cutoff_frequency_hz, sample_rate_hz)) =>
    /\ pc # "panicked"
    /\ n_run = 0
    /\ samples = <<>>
    /\ pc = "loop" => (ENABLED BatchReturn /\ ~ENABLED BatchStep)

\* C10 witness: lowpass_filter has returned on an empty buffer without a call
\* of run.
C10_Witness ==
  /\ pc = "returned"
  /\ orig = <<>>
  /\ n_run = 0
  /\ ExactTwiceLe(cutoff_frequency_hz, sample_rate_hz)

\* C11: a slice-based entry point of the simple module called with an empty
\* buffer returns without indexing an element and without a panic.
C11_SimpleEmptyBuffer ==
  (pc \in {"loop", "returned", "panicked"} /\ orig = <<>>)
    => (pc # "panicked" /\ samples = <<>>)

\* C12: in a production build (debug_assertions off) run never panics and
\* returns a value in [-1, 1] for every input, here even restricted to
\* filters whose alpha is in (0, 1].
C12_ProductionBounded ==
  (~debug_assertions /\ last.op = "run"
     /\ Lt(Zero, filter.alpha) /\ Le(filter.alpha, One))
    => (~last.panicked /\ InRange(last.ret))

\* The crate's example: lowpass_filter has ended on ScenarioInput, called with
\* cutoff * 2 <= rate and an alpha in (0, 1), as 44100.0 and 120.0 give.
ScenarioAlpha == new(sample_rate_hz, cutoff_frequency_hz).alpha
ScenarioCase ==
  /\ pc \in {"returned", "panicked"}
  /\ orig = ScenarioInput
  /\ ExactTwiceLe(cutoff_frequency_hz, sample_rate_hz)
  /\ Lt(Zero, ScenarioAlpha) /\ Lt(ScenarioAlpha, One)

\* prev + alpha * (input - prev) after the second and the third element, prev
\* seeded with the first element.
ScenarioPrev(i) ==
  IF i = 2
  THEN Add(ScenarioInput[1], Mul(ScenarioAlpha, Sub(ScenarioInput[2], ScenarioInput[1])))
  ELSE LET before == Add(ScenarioInput[1],
                         Mul(ScenarioAlpha, Sub(ScenarioInput[2], ScenarioInput[1])))
       IN  Add(before, Mul(ScenarioAlpha, Sub(ScenarioInput[3], before)))

RECURSIVE RunValues(_, _)
RunValues(self, S) ==
  IF S = <<>> THEN <<>>
  ELSE <<[value |-> run(self, Head(S)).value, ret |-> run(self, Head(S)).ret]>>
         \o RunValues(run(self, Head(S)).filter, Tail(S))

\* C14: when an integer variant of the simple module returns, element i of
\* the buffer is the truncation of the i-th output of a LowpassFilter with the
\* same alpha fed the original elements (prev seeded with the raw first
\* element); the output is taken before or after the clamp of run, whichever
\* matches, and alpha is in (0, 1].
C14_IntegerVariants ==
  (pc = "returned" /\ args.data_type \in {"i16", "i32"}
     /\ Lt(Zero, alpha_of_call) /\ Le(alpha_of_call, One)) =>
    LET self == [alpha |-> alpha_of_call, prev |-> Zero, next_is_first |-> TRUE]
        inputs == [i \in 1..Len(orig) |-> Load(args.data_type, orig[i])]
        expected == RunValues(self, inputs)
    IN  \A i \in 1..Len(orig) :
          \/ samples[i] = Store(args.data_type, expected[i].value)
          \/ samples[i] = Store(args.data_type, expected[i].ret)

\* The sum of the squared elements of S in units of 2^(-2 * FracBits), exact;
\* S holds finite values only.
RECURSIVE SumOfSquares(_)
SumOfSquares(S) ==
  IF S = <<>> THEN 0 ELSE Head(S).n * Head(S).n + SumOfSquares(Tail(S))

AllFinite(S) == \A i \in 1..Len(S) : S[i].k = "fin"
AllInRange(S) == \A i \in 1..Len(S) : InRange(S[i])

\* C15: when lowpass_filter returns on a buffer of samples in [-1, 1], the
\* sum of the squared samples is not greater than it was before the call;
\* here even restricted to calls whose alpha is in (0, 1].
C15_Attenuation ==
  (pc = "returned" /\ AllInRange(orig)
     /\ Lt(Zero, filter.alpha) /\ Le(filter.alpha, One)) =>
    /\ AllFinite(samples)
    /\ SumOfSquares(samples) <= SumOfSquares(orig)

\* What one filter is and has returned after the calls S are made on it
\* alone, in order.
RECURSIVE Alone(_, _)
Alone(self, S) ==
  IF S = <<>> THEN [filter |-> self, outs |-> <<>>]
  ELSE IF Head(S).op = "reset" THEN Alone(reset(self), Tail(S))
  ELSE LET rest == Alone(run(self, Head(S).input).filter, Tail(S))
       IN  [filter |-> rest.filter,
            outs |-> <<run(self, Head(S).input).ret>> \o rest.outs]

\* C18: under every interleaving of the calls on two filters, each filter has
\* the state and the outputs its own calls give when made alone, and a call
\* on one filter leaves the other filter unchanged.
C18_ChannelIndependence ==
  /\ [](pc = "running" =>
          \A ch \in Channels :
            LET alone == Alone(new(channels[ch].args.sample_rate_hz,
                                   channels[ch].args.cutoff_frequency_hz),
                               channels[ch].calls)
            IN  /\ channels[ch].filter = alone.filter
                /\ channels[ch].outs = alone.outs)
  /\ [][pc = "running" =>
          \A ch \in Channels :
            channels'[ch].calls = channels[ch].calls =>
              channels'[ch].filter = channels[ch].filter]_vars

\* C18 witness: both filters have been run, with different arguments of new,
\* one of them reset in between, and they hold different prev values.
C18_Witness ==
  /\ pc = "running"
  /\ Len(channels["left"].calls) = 3
  /\ channels["left"].calls[2].op = "reset"
  /\ Len(channels["right"].outs) = 1
  /\ channels["left"].args # channels["right"].args
  /\ channels["left"].filter.prev # channels["right"].filter.prev
  /\ ~channels["left"].filter.next_is_first

\* dt / (rc + dt) with rc = 1 / (cutoff_frequency_hz * 2 pi) and
\* dt = 1 / sample_rate_hz, for the arguments of the latest call of new.
AlphaOfArgs ==
  LET rc == Div(One, Mul(cutoff_frequency_hz, Mul(Two, Pi)))
      dt == Div(One, sample_rate_hz)
  IN  Div(dt, Add(rc, dt))

\* C19: in every state reached from new by calls of run and reset, alpha is
\* dt / (rc + dt) of the arguments of new, and no call of run or reset
\* changes it.
C19_AlphaFixed ==
  /\ [](Live => filter.alpha = AlphaOfArgs)
  /\ [][(Live /\ last'.op \in {"run", "reset"}) => filter'.alpha = filter.alpha]_vars

\* C19 witness: a filter with an alpha in (0, 1) has been run twice, so that
\* prev has moved, and its alpha is still that of its construction.
C19_Witness ==
  /\ Live
  /\ last.op = "run" /\ ~last.first
  /\ filter.alpha = AlphaOfArgs
  /\ Lt(Zero, filter.alpha) /\ Lt(filter.alpha, One)
  /\ Lt(filter.prev, Zero)

\* The value the latest run computed before its clamp: input * alpha on the
\* first sample, the new prev afterwards.
ValueBeforeClamp ==
  IF last.first THEN Mul(last.input, filter.alpha) ELSE filter.prev

\* C20: for every constructed filter and every sequence of inputs in [-1, 1]
\* the value run computes before the clamp is in [-1, 1], so that the clamp
\* returns it unchanged, and the stored prev is in [-1, 1].
C20_ClampNeverTriggers ==
  (Live /\ well_formed /\ last.op = "run") =>
    /\ InRange(ValueBeforeClamp)
    /\ last.ret = ValueBeforeClamp
    /\ InRange(filter.prev)

\* before + alpha * (x - before) for the filter of the batch call.
BatchRecurrence(before, x) == Add(before, Mul(filter.alpha, Sub(x, before)))

\* The value run computed before its clamp for element j of the buffer.
BatchValue(j) ==
  RunValues(new(sample_rate_hz, cutoff_frequency_hz), orig)[j].value

\* C21 as stated: when lowpass_filter returns on inputs in [-1, 1], every
\* element after the first is buffer[i-1] + alpha * (x_i - buffer[i-1]),
\* computed from the filtered value stored before it.
C21_PrefixDependence ==
  (pc = "returned" /\ AllInRange(orig)) =>
    \A j \in 2..Len(orig) :
      samples[j] = BatchRecurrence(samples[j - 1], orig[j])

\* C21 as amended: the second element is computed from the raw first input,
\* x_0 + alpha * (x_1 - x_0) clamped to [-1, 1], not from the stored
\* alpha * x_0; every later element is buffer[i-1] + alpha * (x_i - buffer[i-1])
\* clamped to [-1, 1] whenever the clamp left buffer[i-1] uncut.
C21_PrefixDependenceFromSecond ==
  (pc = "returned" /\ AllInRange(orig)) =>
    /\ Len(orig) >= 2 => samples[2] = Clamped(BatchRecurrence(orig[1], orig[2]))
    /\ \A j \in 3..Len(orig) :
         samples[j - 1] = BatchValue(j - 1) =>
           samples[j] = Clamped(BatchRecurrence(samples[j - 1], orig[j]))

\* C21 witness: lowpass_filter has returned three filtered elements, the
\* second of which is not the recurrence over the stored first, and the third
\* of which moved away from the stored second.
C21_Witness ==
  /\ pc = "returned" /\ AllInRange(orig) /\ Len(orig) = 3
  /\ Lt(Zero, filter.alpha) /\ Lt(filter.alpha, One)
  /\ samples[2] # BatchRecurrence(samples[1], orig[2])
  /\ samples[2] = BatchValue(2)
  /\ samples[3] # samples[2]
  /\ Lt(MinusOne, samples[3]) /\ Lt(samples[3], One)

\* The elements run has returned for the buffer passed to lowpass_filter.
Filtered == Outputs(new(sample_rate_hz, cutoff_frequency_hz), orig, debug_assertions)

\* The call of lowpass_filter sets out at position 0 on the buffer as passed.
SinglePassCall ==
  (pc = "idle" /\ pc' = "loop") => (idx' = 0 /\ n_run' = 0 /\ samples' = orig')

\* A step of the loop at position idx: an iteration writes the filtered value
\* of the element at the position and nothing else and moves the position up
\* by one, so that the elements before the new position are filtered and the
\* elements from it on are as passed in; a panic of run writes nothing; the
\* function returns only from the end of the buffer.
SinglePassStep ==
  (pc = "loop" /\ vars' # vars) =>
    /\ orig' = orig /\ Len(samples') = Len(orig)
    /\ pc' = "loop" =>
         /\ idx < Len(orig)
         /\ idx' = idx + 1
         /\ n_run' = idx'
         /\ \A j \in 1..Len(samples) : j # idx' => samples'[j] = samples[j]
         /\ \A j \in 1..idx' : Filtered[j] = Outcome(FALSE, samples'[j])
         /\ \A j \in (idx' + 1)..Len(orig) : samples'[j] = orig[j]
    /\ pc' = "panicked" => (samples' = samples /\ idx' = idx /\ n_run' = n_run)
    /\ pc' = "returned" =>
         (samples' = samples /\ idx = Len(orig) /\ n_run' = Len(orig))

\* C22: when lowpass_filter computes element i, every element before i holds
\* its filtered value and every element after i its original input; the
\* indices are visited in increasing order, each written once; every
\* iteration moves the position up towards len(buffer), and the function
\* returns only after len(buffer) calls of run.
C22_SinglePass == [][SinglePassCall /\ SinglePassStep]_vars

\* C22 witness: lowpass_filter is in the middle of a buffer of three
\* elements: the first is filtered and changed, the others are untouched.
C22_Witness ==
  /\ pc = "loop" /\ idx = 1 /\ n_run = 1 /\ Len(orig) = 3
  /\ Lt(Zero, filter.alpha) /\ Lt(filter.alpha, One)
  /\ samples[1] # orig[1]
  /\ samples[2] = orig[2] /\ samples[3] = orig[3]
  /\ orig[2] # orig[3]

\* C23: with debug assertions, a call of run with an input outside [-1, 1]
\* panics on its range assertion and leaves the filter as it was before the
\* call: alpha, prev and the first-sample flag.
C23_RangeAssertion ==
  [][(last'.op = "run" /\ vars' # vars /\ debug_assertions /\ ~InRange(last'.input)) =>
       /\ last'.panicked
       /\ filter' = filter]_vars

\* C23 witness: with debug assertions, run has panicked on an input outside
\* [-1, 1] after an earlier run had stored a nonzero prev.
C23_Witness ==
  /\ debug_assertions
  /\ last.op = "run" /\ last.panicked
  /\ ~InRange(last.input) /\ ~IsNan(last.input)
  /\ ~filter.next_is_first
  /\ ~IsZero(filter.prev)
  /\ filter.prev # last.input

\* C24: lowpass_filter called with cutoff * 2 > rate panics on the check of
\* new before it reads or writes an element: no call of run is made and the
\* buffer is as it was passed in.
C24_NyquistBeforeBuffer ==
  (pc # "idle" /\ ExactTwiceGt(cutoff_frequency_hz, sample_rate_hz)) =>
    /\ pc = "panicked"
    /\ idx = 0
    /\ n_run = 0
    /\ samples = orig

\* C24 witness: lowpass_filter has panicked on a buffer of three elements for
\* a positive cutoff above half of a positive sample rate.
C24_Witness ==
  /\ pc = "panicked"
  /\ ExactTwiceGt(cutoff_frequency_hz, sample_rate_hz)
  /\ Gt(sample_rate_hz, Zero)
  /\ Len(orig) = 3
  /\ AllInRange(orig)
  /\ samples = orig
  /\ n_run = 0

\* C25: next_is_first is set exactly when no call of run has returned since
\* the construction or the latest reset, and whenever it is set prev is 0.
C25_FirstSampleFlag ==
  /\ Live => (filter.next_is_first <=> last.op \in {"new", "reset"})
  /\ (last.op \in {"run", "reset"} \/ Live) =>
       (filter.next_is_first => filter.prev = Zero)

\* C25 witness: the first run since construction or reset has returned: the
\* flag is cleared and prev holds a nonzero input.
C25_Witness ==
  /\ Live
  /\ last.op = "run" /\ last.first
  /\ ~filter.next_is_first
  /\ ~IsZero(filter.prev)
  /\ filter.prev = last.input

\* Three calls of run with the same input c.
ConstantFeed(c) == [i \in 1..3 |-> [op |-> "run", input |-> c]]

\* C26: a newly constructed or reset filter fed the same value c in [-1, 1]
\* on every call returns alpha * c first and c on every later call, and its
\* prev stays c.
C26_ConstantInput ==
  (Live /\ filter.next_is_first) =>
    \A c \in {x \in Samples : InRange(x)} :
      /\ Alone(filter, ConstantFeed(c)).outs = <<Mul(filter.alpha, c), c, c>>
      /\ Alone(filter, ConstantFeed(c)).filter.prev = c

\* v lies in the closed interval between a and b.
Between(v, a, b) == (a <= v /\ v <= b) \/ (b <= v /\ v <= a)

\* C27: in the integer variants of the simple module, the value written at
\* index 0 lies between 0 and the original first sample, and every value
\* written at an index i >= 1 lies between the value written at index i - 1
\* and the original sample at index i, for every sample rate and cutoff; here
\* even restricted to calls whose alpha is strictly between 0 and 1.
C27_WrittenBetween ==
  (pc \in {"loop", "returned"} /\ args.data_type \in {"i16", "i32"}
     /\ Lt(Zero, alpha_of_call) /\ Lt(alpha_of_call, One)) =>
    /\ Between(samples[1], 0, orig[1])
    /\ \A j \in 2..idx : Between(samples[j], samples[j - 1], orig[j])

\* into_num has returned for a float argument and an integer target, or for
\* an integer argument and an integer target.
FloatToInt == pc = "returned" /\ conv.source = "float" /\ conv.target # "float"
IntToInt == pc = "returned" /\ conv.source # "float" /\ conv.target # "float"

\* r is x with the fraction dropped, toward zero.
TruncatedTowardZero(r, x) ==
  /\ Abs(r) * UnitsPerOne <= x.n
  /\ x.n < (Abs(r) + 1) * UnitsPerOne
  /\ r # 0 => (r < 0 <=> x.neg)

\* An integer that fits the target is unchanged, one that does not fit wraps
\* modulo 2^w.
FitsOrWraps(r, i, target) ==
  /\ TypeMin(target) <= r /\ r <= TypeMax(target)
  /\ (r - i) % Pow2(TypeWidth(target)) = 0

\* C28 as stated: into_num(x) returns from_num(x); for an integer target a
\* float is truncated toward zero (and the result then fits or wraps like an
\* integer), an integer that fits is unchanged and one that does not fit wraps
\* modulo 2^w.
C28_PlainCast ==
  /\ pc = "returned" => conv.ret = from_num(conv.source, conv.target, conv.x)
  /\ (FloatToInt /\ conv.x.k = "fin") =>
       \E i \in -(MaxFinite \div UnitsPerOne)..(MaxFinite \div UnitsPerOne) :
         TruncatedTowardZero(i, conv.x) /\ FitsOrWraps(conv.ret, i, conv.target)
  /\ IntToInt => FitsOrWraps(conv.ret, conv.x, conv.target)

\* C28 as amended: into_num(x) returns from_num(x); for an integer target a
\* float is truncated toward zero when the integer part fits, is the nearest
\* bound of the target when it does not fit or is infinite, and is 0 when it
\* is NaN; an integer that fits is unchanged and one that does not fit wraps
\* modulo 2^w.
C28_PlainCastSaturating ==
  /\ pc = "returned" => conv.ret = from_num(conv.source, conv.target, conv.x)
  /\ FloatToInt =>
       LET lo == TypeMin(conv.target)
           hi == TypeMax(conv.target)
           x == conv.x
       IN  /\ IsNan(x) => conv.ret = 0
           /\ (~IsNan(x) /\ Key(x) >= (hi + 1) * UnitsPerOne) => conv.ret = hi
           /\ (~IsNan(x) /\ Key(x) <= (lo - 1) * UnitsPerOne) => conv.ret = lo
           /\ (~IsNan(x) /\ (lo - 1) * UnitsPerOne < Key(x)
                 /\ Key(x) < (hi + 1) * UnitsPerOne) =>
                (lo <= conv.ret /\ conv.ret <= hi /\ TruncatedTowardZero(conv.ret, x))
  /\ IntToInt => FitsOrWraps(conv.ret, conv.x, conv.target)

\* C28 witness: into_num has returned the upper bound of the short integer
\* for a finite float with a fraction whose integer part does not fit.
C28_Witness ==
  /\ FloatToInt
  /\ conv.target = "i16"
  /\ conv.x.k = "fin" /\ ~conv.x.neg
  /\ conv.x.n % UnitsPerOne # 0
  /\ Trunc(conv.x) > TypeMax("i16")
  /\ conv.ret = TypeMax("i16")
====
